---- MODULE Spec2Model ----
(***************************************************************************)
(* pocketdIAry.server: the account and note handlers of                    *)
(* controllers/userController.mjs and controllers/noteController.mjs, the  *)
(* crypto helpers of utils/encryption.mjs and the routes of the server,    *)
(* over the two tables studenti (users) and note (notes).                  *)
(*                                                                         *)
(* Every database query is one atomic step: all handlers share a single    *)
(* pg client, which runs queries one at a time.  A handler with one query  *)
(* is one action; a handler with two queries is two actions, and other     *)
(* requests may run between them (the handler is suspended at the await).  *)
(***************************************************************************)
EXTENDS Integers, Sequences, FiniteSets, TLC

\* ------------------------------------------------------------------ bounds
MaxProcs == 2
MaxKeys == 2
MaxNotes == 2
\* days of a calendar year, and the day of the year that today is
YearLength == 3
TodayOfYear == 1
\* the cipher in the small: digits per radix (a byte is two digits), bytes of
\* a block and of a key, code units of a message
Radix == 2
BlockSize == 2
MaxLen == 2

\* ------------------------------------------------------- program constants
ERROR == 400
SUCCESS == 200
INTERNALERR == 500
ENCRYPT_KEY == -1
CurrentDate == 0
\* the literal 128 of the length tests
MaxFieldLength == 128
\* the literal 10 of the year test of addNote
YearsAhead == 10

\* ------------------------------------------------------------ input values
Procs == 1..MaxProcs
Keys == 1..MaxKeys
Emails == {"a@x.com", "b@x.com"}
EmailInputs == Emails \cup {"nomail", ""}
Passwords == {"pw1", "pw2"}
Names == {"Ann", "Bob"}
Themes == {0, 1}
KeyInputs == Keys
Titles == {"Title"}
Descriptions == {"Desc"}
DateInputs == {CurrentDate - 1, CurrentDate, CurrentDate + 1}
NoteIds == 1..MaxNotes
\* A string of 129 characters.
LongString ==
    "aaaaaaaaaaaaaaaaaaaaaaaaaaaaaaaaaaaaaaaaaaaaaaaaaaaaaaaaaaaaaaaaaaaaaaaaaaaaaaaaaaaaaaaaaaaaaaaaaaaaaaaaaaaaaaaaaaaaaaaaaaaaaaaaaaaaa"
\* The dates around the two ends of the range of addNote: yesterday, today,
\* tomorrow, the day ten years from today, the day after it, the last day
\* of the tenth calendar year from this one and the first day of the next;
\* and no date and no parsable date.
RangeDates ==
    {CurrentDate - 1, CurrentDate, CurrentDate + 1,
     CurrentDate + YearsAhead * YearLength,
     CurrentDate + YearsAhead * YearLength + 1,
     (YearsAhead + 1) * YearLength - TodayOfYear - 1,
     (YearsAhead + 1) * YearLength - TodayOfYear}

\* ------------------------------------------------------------------ crypto
\* generateKey: 32 random bytes; two draws never coincide, so the n-th draw
\* is modelled as the number n.
generateKey(n) == n

\* A ciphertext is determined by the key and the message (fixed zero IV).
encryptMessage(key, message) == <<key, message>>

BadDecrypt == "bad decrypt"

\* Deciphering with the key that enciphered gives the message back; with
\* another key the cipher throws (bad padding) or yields unreadable bytes.
decryptMessage(key, encryptedMessage) ==
    IF encryptedMessage[1] = key THEN {encryptedMessage[2]}
    ELSE {BadDecrypt, "garbled"}

createHash(data) == <<"sha256", data>>

\* ------------------------------------------------------ the cipher itself
\* encryptMessage and decryptMessage step by step, on bytes: a byte is two
\* digits of the radix, a block is BlockSize bytes and so is a key. The block
\* cipher of the library (AES) is a permutation of the blocks for each key,
\* and the exclusive or of the chaining a group operation on the bytes; here
\* they are a shift of the reversed block by the key, and the sum modulo the
\* number of bytes.
ByteCount == Radix * Radix

Bytes == 0 .. (ByteCount - 1)

\* UTF-8 in the small: the bytes of Ascii are characters of one byte, Lead
\* followed by Cont is the one character of two bytes, U+FFFD.
Lead == ByteCount - 2

Cont == ByteCount - 1

Ascii == 0 .. (ByteCount - 3)

\* the code units of a string: the characters, and an unpaired surrogate
Replacement == ByteCount

Surrogate == ByteCount + 1

CodeUnits == Ascii \cup {Replacement, Surrogate}

\* Buffer.from(message, "utf8"): an unpaired surrogate is written as U+FFFD
RECURSIVE utf8Write(_)
utf8Write(message) ==
    IF message = <<>> THEN <<>>
    ELSE (IF message[1] \in Ascii THEN <<message[1]>> ELSE <<Lead, Cont>>)
         \o utf8Write(Tail(message))

\* buffer.toString("utf8"): a byte that starts no character reads as U+FFFD
RECURSIVE utf8Read(_)
utf8Read(bytes) ==
    IF bytes = <<>> THEN <<>>
    ELSE IF bytes[1] \in Ascii THEN <<bytes[1]>> \o utf8Read(Tail(bytes))
    ELSE IF bytes[1] = Lead /\ Len(bytes) >= 2 /\ bytes[2] = Cont
    THEN <<Replacement>> \o utf8Read(Tail(Tail(bytes)))
    ELSE <<Replacement>> \o utf8Read(Tail(bytes))

\* buffer.toString("hex") and Buffer.from(digits, "hex")
RECURSIVE toHex(_)
toHex(bytes) ==
    IF bytes = <<>> THEN <<>>
    ELSE <<bytes[1] \div Radix, bytes[1] % Radix>> \o toHex(Tail(bytes))

RECURSIVE fromHex(_)
fromHex(digits) ==
    IF Len(digits) < 2 THEN <<>>
    ELSE <<digits[1] * Radix + digits[2]>> \o fromHex(Tail(Tail(digits)))

\* the padding of the last block (PKCS#7): n bytes of value n, 1 <= n <= BlockSize
pad(bytes) ==
    LET n == BlockSize - (Len(bytes) % BlockSize)
    IN bytes \o [i \in 1..n |-> n]

padOk(block) ==
    LET n == block[BlockSize]
    IN /\ n \in 1..BlockSize
       /\ \A i \in (BlockSize - n + 1)..BlockSize : block[i] = n

unpad(block) == SubSeq(block, 1, BlockSize - block[BlockSize])

\* the block cipher with the key k, and its inverse
blockEncrypt(k, block) ==
    [i \in 1..BlockSize |-> (block[BlockSize + 1 - i] + k[i]) % ByteCount]

blockDecrypt(k, block) ==
    [i \in 1..BlockSize |->
        (block[BlockSize + 1 - i] - k[BlockSize + 1 - i] + ByteCount) % ByteCount]

\* Buffer.alloc(16, 0)
iv == [i \in 1..BlockSize |-> 0]

\* cipher block chaining
RECURSIVE cbcEncrypt(_, _, _)
cbcEncrypt(k, bytes, previous) ==
    IF bytes = <<>> THEN <<>>
    ELSE LET block == [i \in 1..BlockSize |-> (bytes[i] + previous[i]) % ByteCount]
             out == blockEncrypt(k, block)
         IN out \o cbcEncrypt(k, SubSeq(bytes, BlockSize + 1, Len(bytes)), out)

\* Deciphering of each block on its own, without the chaining.
RECURSIVE ecbDecrypt(_, _, _)
ecbDecrypt(k, bytes, previous) ==
    IF bytes = <<>> THEN <<>>
    ELSE blockDecrypt(k, SubSeq(bytes, 1, BlockSize))
         \o ecbDecrypt(k, SubSeq(bytes, BlockSize + 1, Len(bytes)), previous)

RECURSIVE cbcDecrypt(_, _, _)
cbcDecrypt(k, bytes, previous) ==
    IF bytes = <<>> THEN <<>>
    ELSE LET block == SubSeq(bytes, 1, BlockSize)
             out == blockDecrypt(k, block)
         IN [i \in 1..BlockSize |-> (out[i] - previous[i] + ByteCount) % ByteCount]
            \o cbcDecrypt(k, SubSeq(bytes, BlockSize + 1, Len(bytes)), block)

\* cipher.update(message, "utf8", "hex") + cipher.final("hex")
encryptMessageHex(key, message) ==
    toHex(cbcEncrypt(fromHex(key), pad(utf8Write(message)), iv))

\* the bytes a string decoder keeps for its next call: the start of a
\* character whose end has not come yet
held(bytes) ==
    IF bytes # <<>> /\ bytes[Len(bytes)] = Lead THEN <<Lead>> ELSE <<>>

\* decipher.update(encryptedMessage, "hex", "utf8") + decipher.final("utf8"):
\* update deciphers and reads all blocks but the last, final takes the
\* padding off the last block or throws when the padding is not one
decryptMessageHex(key, encryptedMessage) ==
    LET bytes == cbcDecrypt(fromHex(key), fromHex(encryptedMessage), iv)
        first == SubSeq(bytes, 1, Len(bytes) - BlockSize)
        last == SubSeq(bytes, Len(bytes) - BlockSize + 1, Len(bytes))
        kept == held(first)
        update == utf8Read(SubSeq(first, 1, Len(first) - Len(kept)))
    IN IF ~ padOk(last)
       THEN [thrown |-> TRUE, text |-> <<>>]
       ELSE [thrown |-> FALSE, text |-> update \o utf8Read(kept \o unpad(last))]

\* the keys of the right length, in hex, and the messages
CipherKeys == [1..(2 * BlockSize) -> 0..(Radix - 1)]

Messages == UNION {[1..n -> CodeUnits] : n \in 0..MaxLen}


\* /^[^\s@]+@[^\s@]+\.[^\s@]+$/ on the strings of EmailInputs
validateEmailFormat(email) == email \in {"a@x.com", "b@x.com"}

\* A field that the request's body does not carry.
Undefined == "<undefined>"

\* JavaScript's !x for the strings and numbers of the model
Falsy(x) == x = "" \/ x = Undefined

\* A test of a number that lets every number through.
FalsyNumberNever(n) == FALSE

FalsyNumber(n) == n = 0

\* --------------------------------------------------------------- responses
\* res, the response object of a request, is named by the request's route.
sendErrorResponse(res, statusCode, message) ==
    [to |-> res, status |-> statusCode, body |-> [error |-> message]]

sendSuccessResponse(res, data) == [to |-> res, status |-> SUCCESS, body |-> data]

\* what a step that sends nothing leaves in resp
NoResponse == [to |-> "", status |-> 0, body |-> [none |-> TRUE]]

\* The handler threw outside its try blocks: the request gets no answer.
Thrown(res, error) == [to |-> res, status |-> 0, body |-> [thrown |-> error]]

\* res.json() on a response that was already sent throws ERR_HTTP_HEADERS_SENT
HeadersSent(res) ==
    [to |-> res, status |-> 0, body |-> [thrown |-> "ERR_HTTP_HEADERS_SENT"]]

\* err.message of a failed client.query
DbErrorMessage == "db: query failed"

Idle == [op |-> "idle"]

\* resp is the response that the last step sent, NoResponse if it sent none.
VARIABLES users, notes, nextKey, nextId, pend, resp, prof, lastDelete

vars == <<users, notes, nextKey, nextId, pend, resp, prof, lastDelete>>

NoDelete ==
    [key |-> 0, email |-> "", password |-> "", out |-> "", rep |-> FALSE, cascaded |-> 0]

Init ==
    /\ users = {}
    /\ notes = {}
    /\ nextKey = 1
    /\ nextId = 1
    /\ pend = [p \in Procs |-> Idle]
    /\ resp = NoResponse
    /\ prof = {}
    /\ lastDelete = NoDelete


\* ------------------------------------------------------------ the tables
\* studenti: rows [email, password, ntema, nome, chiave]
\* note:     rows [id, dataora, titolo, testo, idStudente]

\* The unique constraint on studenti.email: the insert is refused with
\* error code 23505 when a row with that email exists.
UniqueViolation(U, row) == \E u \in U : u.email = row.email

\* Deleting rows of studenti removes the notes they own.
CascadeNotes(N, deleted) ==
    {n \in N : ~ \E u \in deleted : u.email = n.idStudente}

\* ----------------------------------------- the accounts as the clients know
\* them (history): [email, key, name, theme, password] in plaintext.
ProfOf(email) == {a \in prof : a.email = email}

ProfMatch(key, email, password) ==
    {a \in prof : a.key = key /\ a.email = email /\ a.password = password}

\* A step that answers a request other than deleteUser.
Reply(r) == resp' = r /\ lastDelete' = NoDelete

\* ---------------------------------------------------------------- register
\* A theme that is not of type number (a string, or no field at all).
NoNumber == -1000

typeofNumber(n) == n # NoNumber

\* The test of the inputs without the lengths.
registerInputPresent(email, password, ntema, name) ==
    \/ Falsy(email) \/ Falsy(password) \/ Falsy(name)
    \/ ~ typeofNumber(ntema)

registerInputInvalid(email, password, ntema, name) ==
    \/ Falsy(email) \/ Falsy(password) \/ Falsy(name)
    \/ ~ typeofNumber(ntema)
    \/ Len(email) > MaxFieldLength
    \/ Len(password) > MaxFieldLength
    \/ Len(name) > MaxFieldLength

\* A row whose email is enciphered under the user's own key.
registerRowOwnKey(email, password, ntema, name, generatedKey) ==
    [email |-> encryptMessage(generatedKey, email),
     password |-> createHash(password),
     ntema |-> ntema,
     nome |-> encryptMessage(ENCRYPT_KEY, name),
     chiave |-> generatedKey]

registerRow(email, password, ntema, name, generatedKey) ==
    [email |-> encryptMessage(ENCRYPT_KEY, email),
     password |-> createHash(password),
     ntema |-> ntema,
     nome |-> encryptMessage(ENCRYPT_KEY, name),
     chiave |-> generatedKey]

Register(email, password, ntema, name, ok) ==
    LET row == registerRow(email, password, ntema, name, generateKey(nextKey)) IN
    /\ UNCHANGED <<notes, nextId, pend>>
    /\ IF registerInputInvalid(email, password, ntema, name)
       THEN /\ Reply(sendErrorResponse("register", ERROR, "Invalid input parameters."))
            /\ UNCHANGED <<users, nextKey, prof>>
       ELSE IF ~ validateEmailFormat(email)
       THEN /\ Reply(sendErrorResponse("register", ERROR, "Invalid email format."))
            /\ UNCHANGED <<users, nextKey, prof>>
       ELSE IF ~ ok
       THEN /\ Reply(sendErrorResponse("register", INTERNALERR, "An error occurred. Please try again."))
            /\ UNCHANGED <<users, nextKey, prof>>
       ELSE IF UniqueViolation(users, row)
       THEN /\ Reply(sendErrorResponse("register", ERROR, "Email already registered."))
            /\ UNCHANGED <<users, nextKey, prof>>
       ELSE /\ nextKey <= MaxKeys
            /\ users' = users \cup {row}
            /\ nextKey' = nextKey + 1
            /\ prof' = prof \cup {[email |-> email, key |-> generateKey(nextKey),
                                   name |-> name, theme |-> ntema,
                                   password |-> password]}
            /\ Reply(sendSuccessResponse("register", [message |-> "Registration successful!"]))

\* ------------------------------------------------------------------- login
\* A lookup of the user by the email alone.
loginSelectByEmail(U, email, password) ==
    {u \in U : u.email = encryptMessage(ENCRYPT_KEY, email)}

loginSelect(U, email, password) ==
    {u \in U : /\ u.email = encryptMessage(ENCRYPT_KEY, email)
               /\ u.password = createHash(password)}

\* An answer with the name as it is stored.
loginAnswerStored(user, name) ==
    sendSuccessResponse("login", [key |-> user.chiave, name |-> user.nome, theme |-> user.ntema])

loginAnswer(user, name) ==
    IF name = BadDecrypt
    THEN sendErrorResponse("login", INTERNALERR, BadDecrypt)
    ELSE sendSuccessResponse("login", [key |-> user.chiave, name |-> name, theme |-> user.ntema])

Login(email, password, ok) ==
    /\ UNCHANGED <<users, notes, nextKey, nextId, pend, prof>>
    /\ IF Falsy(email) \/ Falsy(password)
       THEN Reply(sendErrorResponse("login", ERROR, "Invalid inputs"))
       ELSE IF ~ ok
       THEN Reply(sendErrorResponse("login", INTERNALERR, DbErrorMessage))
       ELSE IF loginSelect(users, email, password) = {}
       THEN Reply(sendErrorResponse("login", ERROR, "Invalid credentials"))
       ELSE \E user \in loginSelect(users, email, password) :
              \E name \in decryptMessage(ENCRYPT_KEY, user.nome) :
                Reply(loginAnswer(user, name))

\* -------------------------------------------------------------- deleteUser
\* A lookup of the user by the email and the password alone.
deleteUserSelectNoKey(U, key, email, password) ==
    {u \in U : u.email = email /\ u.password = password}

deleteUserSelect(U, key, email, password) ==
    {u \in U : u.chiave = key /\ u.email = email /\ u.password = password}

\* A DELETE whose conditions no row meets.
deleteUserDeleteNone(U, key, email, password) == {}

deleteUserDelete(U, key, email, password) ==
    {u \in U : u.chiave = key /\ u.email = email /\ u.password = password}

\* What the second query's answer sends: the only response of the request,
\* or a second one, which throws.
SendOnce(sent, r) == IF sent = 0 THEN r ELSE HeadersSent(r.to)

\* The request before this one was the same deleteUser and was answered "OK".
JustDeleted(key, email, password) ==
    /\ lastDelete.key = key
    /\ lastDelete.email = email
    /\ lastDelete.password = password
    /\ lastDelete.out = "OK"

DeleteUserLookup(p, key, email, password, ok) ==
    LET encEmail == encryptMessage(ENCRYPT_KEY, email)
        hashed == createHash(password)
        \* the handler's variables at the await; plain is history (the
        \* request as the client wrote it), read by no query
        waiting == [op |-> "deleteUser", key |-> key, email |-> encEmail,
                    password |-> hashed]
    IN
    /\ pend[p] = Idle
    /\ UNCHANGED <<users, notes, nextKey, nextId, prof>>
    /\ IF Falsy(email) \/ Falsy(password) \/ FalsyNumber(key)
       THEN /\ Reply(sendErrorResponse("deleteUser", ERROR, "Invalid inputs"))
            /\ UNCHANGED pend
       ELSE IF ~ ok
       THEN \* the catch answers and does not return: the DELETE follows
            /\ resp' = sendErrorResponse("deleteUser", INTERNALERR, DbErrorMessage)
            /\ lastDelete' = NoDelete
            /\ pend' = [pend EXCEPT ![p] = waiting
                                             @@ [sent |-> 1, plain |-> <<email, password>>]]
       ELSE IF deleteUserSelect(users, key, encEmail, hashed) = {}
       THEN /\ resp' = sendSuccessResponse("deleteUser", [message |-> "no user found"])
            /\ lastDelete' = [key |-> key, email |-> email, password |-> password,
                              out |-> "no user found", cascaded |-> 0,
                              rep |-> JustDeleted(key, email, password)]
            /\ UNCHANGED pend
       ELSE /\ pend' = [pend EXCEPT ![p] = waiting
                                             @@ [sent |-> 0, plain |-> <<email, password>>]]
            /\ resp' = NoResponse
            /\ UNCHANGED lastDelete

DeleteUserDelete(p, ok) ==
    LET w == pend[p]
        gone == deleteUserDelete(users, w.key, w.email, w.password)
    IN
    /\ w.op = "deleteUser"
    /\ pend' = [pend EXCEPT ![p] = Idle]
    /\ UNCHANGED <<nextKey, nextId>>
    /\ IF ok
       THEN /\ users' = users \ gone
            /\ notes' = CascadeNotes(notes, gone)
            /\ prof' = prof \ ProfMatch(w.key, w.plain[1], w.plain[2])
            /\ resp' = SendOnce(w.sent, sendSuccessResponse("deleteUser", [message |-> "OK"]))
            /\ lastDelete' = IF w.sent = 0
                             THEN [key |-> w.key, email |-> w.plain[1],
                                   password |-> w.plain[2], out |-> "OK", rep |-> FALSE,
                                   cascaded |-> Cardinality(notes \ CascadeNotes(notes, gone))]
                             ELSE NoDelete
       ELSE /\ UNCHANGED <<users, notes, prof>>
            /\ resp' = SendOnce(w.sent, sendErrorResponse("deleteUser", INTERNALERR, DbErrorMessage))
            /\ lastDelete' = NoDelete


\* ------------------------------------------ updateName / Password / Theme
\* An update of the name that also resets the theme.
updateNameRowsResetTheme(U, key, email, password, name) ==
    {IF u.chiave = key /\ u.email = email /\ u.password = password
     THEN [u EXCEPT !.nome = name, !.ntema = 0] ELSE u : u \in U}

updateNameRows(U, key, email, password, name) ==
    {IF u.chiave = key /\ u.email = email /\ u.password = password
     THEN [u EXCEPT !.nome = name] ELSE u : u \in U}

\* An update that writes the current password hash back.
updatePasswordRowsSwapped(U, key, email, password, newPassword) ==
    {IF u.chiave = key /\ u.email = email /\ u.password = password
     THEN [u EXCEPT !.password = password] ELSE u : u \in U}

updatePasswordRows(U, key, email, password, newPassword) ==
    {IF u.chiave = key /\ u.email = email /\ u.password = password
     THEN [u EXCEPT !.password = newPassword] ELSE u : u \in U}

\* An update of the theme that does not look at the password.
updateThemeRowsNoPassword(U, key, email, password, ntema) ==
    {IF u.chiave = key /\ u.email = email
     THEN [u EXCEPT !.ntema = ntema] ELSE u : u \in U}

updateThemeRows(U, key, email, password, ntema) ==
    {IF u.chiave = key /\ u.email = email /\ u.password = password
     THEN [u EXCEPT !.ntema = ntema] ELSE u : u \in U}

UpdateName(key, email, password, name, ok) ==
    /\ UNCHANGED <<notes, nextKey, nextId, pend>>
    /\ IF FalsyNumber(key) \/ Falsy(email) \/ Falsy(password) \/ Falsy(name)
       THEN /\ Reply(sendErrorResponse("updateName", ERROR, "Invalid inputs"))
            /\ UNCHANGED <<users, prof>>
       ELSE IF ~ ok
       THEN /\ Reply(sendErrorResponse("updateName", INTERNALERR, DbErrorMessage))
            /\ UNCHANGED <<users, prof>>
       ELSE /\ users' = updateNameRows(users, key, encryptMessage(ENCRYPT_KEY, email),
                                       createHash(password),
                                       encryptMessage(ENCRYPT_KEY, name))
            /\ prof' = (prof \ ProfMatch(key, email, password)) \cup
                       {[a EXCEPT !.name = name] : a \in ProfMatch(key, email, password)}
            /\ Reply(sendSuccessResponse("updateName", [message |-> "OK"]))

UpdatePassword(key, email, password, newPassword, ok) ==
    /\ UNCHANGED <<notes, nextKey, nextId, pend>>
    /\ IF FalsyNumber(key) \/ Falsy(email) \/ Falsy(password) \/ Falsy(newPassword)
       THEN /\ Reply(sendErrorResponse("updatePassword", ERROR, "Invalid inputs"))
            /\ UNCHANGED <<users, prof>>
       ELSE IF ~ ok
       THEN /\ Reply(sendErrorResponse("updatePassword", INTERNALERR, DbErrorMessage))
            /\ UNCHANGED <<users, prof>>
       ELSE /\ users' = updatePasswordRows(users, key, encryptMessage(ENCRYPT_KEY, email),
                                           createHash(password), createHash(newPassword))
            /\ prof' = (prof \ ProfMatch(key, email, password)) \cup
                       {[a EXCEPT !.password = newPassword] :
                           a \in ProfMatch(key, email, password)}
            /\ Reply(sendSuccessResponse("updatePassword", [message |-> "OK"]))

UpdateTheme(key, email, password, ntema, ok) ==
    /\ UNCHANGED <<notes, nextKey, nextId, pend>>
    /\ IF FalsyNumber(key) \/ Falsy(email) \/ Falsy(password) \/ FalsyNumber(ntema)
       THEN /\ Reply(sendErrorResponse("updateTheme", ERROR, "Invalid inputs"))
            /\ UNCHANGED <<users, prof>>
       ELSE IF ~ ok
       THEN /\ Reply(sendErrorResponse("updateTheme", INTERNALERR, DbErrorMessage))
            /\ UNCHANGED <<users, prof>>
       ELSE /\ users' = updateThemeRows(users, key, encryptMessage(ENCRYPT_KEY, email),
                                        createHash(password), ntema)
            /\ prof' = (prof \ ProfMatch(key, email, password)) \cup
                       {[a EXCEPT !.theme = ntema] : a \in ProfMatch(key, email, password)}
            /\ Reply(sendSuccessResponse("updateTheme", [message |-> "OK"]))

\* ----------------------------------------------------------------- addNote
\* new Date(date) at midnight against today at midnight, in days
\* Dates are days counted from today (CurrentDate); a calendar year has
\* YearLength days and today is its day TodayOfYear.
getFullYear(date) == (date + TodayOfYear) \div YearLength

\* A date field that is not there, and one that new Date() cannot parse.
MissingDate == -1000
UnparsableDate == -1001

\* isNaN(noteDate.getTime()) || noteDate < currentDate ||
\* noteDate.getFullYear() > currentDate.getFullYear() + 10
addNoteDateInvalid(date) ==
    \/ date = UnparsableDate
    \/ date < CurrentDate
    \/ getFullYear(date) > getFullYear(CurrentDate) + YearsAhead

\* A key that is not 32 bytes in hex: createCipheriv throws on it.
MalformedKey == -2

InvalidKeyLength == "Invalid key length"

validKey(key) == key # MalformedKey

\* A lookup of the user by the email alone.
addNoteSelectByEmail(U, key, email) == {u \in U : u.email = email}

\* A lookup of the user by the key alone.
addNoteSelectByKey(U, key, email) == {u \in U : u.chiave = key}

addNoteSelect(U, key, email) == {u \in U : u.chiave = key /\ u.email = email}

addNoteRow(id, date, title, description, email) ==
    [id |-> id, dataora |-> date, titolo |-> title, testo |-> description,
     idStudente |-> email]

\* An INSERT that looks the owner up again and adds nothing without one.
addNoteInsertIfOwner(N, U, row) ==
    IF \E u \in U : u.email = row.idStudente THEN N \cup {row} ELSE N

\* INSERT INTO note: the statement names no user but by the value of
\* idStudente, and looks at the table studenti not at all
addNoteInsert(N, U, row) == N \cup {row}

PendingInserts == Cardinality({q \in Procs : pend[q].op = "addNote"})

AddNoteCheck(p, key, title, description, date, email, ok) ==
    /\ pend[p] = Idle
    /\ UNCHANGED <<users, notes, nextKey, nextId, prof>>
    /\ IF title = Undefined
       THEN \* title.length throws a TypeError before the first test
            /\ Reply(Thrown("addNote", "TypeError"))
            /\ UNCHANGED pend
       ELSE IF Len(title) > MaxFieldLength
       THEN /\ Reply(sendErrorResponse("addNote", ERROR, "title is too long"))
            /\ UNCHANGED pend
       ELSE IF \/ FalsyNumber(key) \/ Falsy(title) \/ Falsy(description)
               \/ date = MissingDate \/ Falsy(email)
       THEN /\ Reply(sendErrorResponse("addNote", ERROR, "Invalid inputs"))
            /\ UNCHANGED pend
       ELSE IF addNoteDateInvalid(date)
       THEN /\ Reply(sendErrorResponse("addNote", ERROR,
                 "Date must be from today and within a reasonable future range."))
            /\ UNCHANGED pend
       ELSE IF ~ validKey(key)
       THEN \* encryptMessage(key, title) throws before the try block
            /\ Reply(Thrown("addNote", InvalidKeyLength))
            /\ UNCHANGED pend
       ELSE IF ~ ok
       THEN /\ Reply(sendErrorResponse("addNote", INTERNALERR, DbErrorMessage))
            /\ UNCHANGED pend
       ELSE IF addNoteSelect(users, key, encryptMessage(ENCRYPT_KEY, email)) = {}
       THEN /\ Reply(sendErrorResponse("addNote", ERROR, "user not found"))
            /\ UNCHANGED pend
       ELSE /\ nextId + PendingInserts <= MaxNotes
            /\ pend' = [pend EXCEPT ![p] =
                          [op |-> "addNote", date |-> date,
                           title |-> encryptMessage(key, title),
                           description |-> encryptMessage(key, description),
                           email |-> encryptMessage(ENCRYPT_KEY, email)]]
            /\ resp' = NoResponse
            /\ UNCHANGED lastDelete

AddNoteInsert(p, ok) ==
    LET w == pend[p] IN
    /\ w.op = "addNote"
    /\ pend' = [pend EXCEPT ![p] = Idle]
    /\ UNCHANGED <<users, nextKey, prof>>
    /\ IF ok
       THEN /\ notes' = addNoteInsert(notes, users,
                            addNoteRow(nextId, w.date, w.title, w.description, w.email))
            /\ nextId' = nextId + 1
            /\ Reply(sendSuccessResponse("addNote", [message |-> "OK"]))
       ELSE /\ UNCHANGED <<notes, nextId>>
            /\ Reply(sendErrorResponse("addNote", INTERNALERR, DbErrorMessage))


\* ---------------------------------------------------------------- getNotes
RECURSIVE RowsById(_)
\* result.rows as an array, in the order of the ids
RowsById(S) ==
    IF S = {} THEN <<>>
    ELSE LET first == CHOOSE n \in S : \A o \in S : n.id <= o.id
         IN <<first>> \o RowsById(S \ {first})

CanThrow(key, rows) ==
    \E n \in rows : \/ BadDecrypt \in decryptMessage(key, n.titolo)
                    \/ BadDecrypt \in decryptMessage(key, n.testo)

\* what decryptMessage returns when it does not throw
Deciphered(key, c) == CHOOSE m \in decryptMessage(key, c) : m # BadDecrypt

\* A lookup of the user by the key alone.
getNotesSelectUserByKey(U, key, email) == {u \in U : u.chiave = key}

getNotesSelectUser(U, key, email) == {u \in U : u.chiave = key /\ u.email = email}

\* A selection of the notes by the owner alone.
getNotesSelectAnyDate(N, email, date) == {n \in N : n.idStudente = email}

getNotesSelect(N, email, date) ==
    {n \in N : n.idStudente = email /\ n.dataora = date}

getNotesMap(key, rows) ==
    [i \in 1..Len(rows) |->
        [title |-> Deciphered(key, rows[i].titolo),
         description |-> Deciphered(key, rows[i].testo),
         dataora |-> rows[i].dataora]]

GetNotesCheck(p, key, email, date, ok) ==
    /\ pend[p] = Idle
    /\ UNCHANGED <<users, notes, nextKey, nextId, prof>>
    /\ IF FalsyNumber(key) \/ Falsy(email) \/ date = MissingDate
       THEN /\ Reply(sendErrorResponse("getNotes", ERROR, "Invalid inputs"))
            /\ UNCHANGED pend
       ELSE IF ~ ok
       THEN /\ Reply(sendErrorResponse("getNotes", INTERNALERR, DbErrorMessage))
            /\ UNCHANGED pend
       ELSE IF getNotesSelectUser(users, key, encryptMessage(ENCRYPT_KEY, email)) = {}
       THEN /\ Reply(sendErrorResponse("getNotes", ERROR, "user not found"))
            /\ UNCHANGED pend
       ELSE /\ pend' = [pend EXCEPT ![p] =
                          [op |-> "getNotes", key |-> key, date |-> date,
                           email |-> encryptMessage(ENCRYPT_KEY, email)]]
            /\ resp' = NoResponse
            /\ UNCHANGED lastDelete

GetNotesFetch(p, ok) ==
    LET w == pend[p]
        rows == getNotesSelect(notes, w.email, w.date)
    IN
    /\ w.op = "getNotes"
    /\ pend' = [pend EXCEPT ![p] = Idle]
    /\ UNCHANGED <<users, notes, nextKey, nextId, prof>>
    /\ \/ /\ ok
          /\ Reply(sendSuccessResponse("getNotes", [notes |-> getNotesMap(w.key, RowsById(rows))]))
       \/ /\ ok
          /\ CanThrow(w.key, rows)
          /\ Reply(sendErrorResponse("getNotes", INTERNALERR, BadDecrypt))
       \/ /\ ~ ok
          /\ Reply(sendErrorResponse("getNotes", INTERNALERR, DbErrorMessage))

\* ----------------------------------------------------------- getTodayNotes
getTodayNotesSelectUser(U, key, email) ==
    {u \in U : u.chiave = key /\ u.email = email}

\* A selection of the notes by the owner alone.
getTodayNotesSelectAnyDay(N, email) == {n \in N : n.idStudente = email}

getTodayNotesSelect(N, email) ==
    {n \in N : n.idStudente = email /\ n.dataora = CurrentDate}

getTodayNotesMap(key, rows) ==
    [i \in 1..Len(rows) |->
        [id |-> rows[i].id,
         title |-> Deciphered(key, rows[i].titolo),
         description |-> Deciphered(key, rows[i].testo),
         dataora |-> rows[i].dataora]]

GetTodayNotesCheck(p, key, email, ok) ==
    /\ pend[p] = Idle
    /\ UNCHANGED <<users, notes, nextKey, nextId, prof>>
    /\ IF FalsyNumber(key) \/ Falsy(email)
       THEN /\ Reply(sendErrorResponse("getTodayNotes", ERROR, "Invalid inputs"))
            /\ UNCHANGED pend
       ELSE IF ~ ok
       THEN /\ Reply(sendErrorResponse("getTodayNotes", INTERNALERR, "An error occurred on the server."))
            /\ UNCHANGED pend
       ELSE IF getTodayNotesSelectUser(users, key, encryptMessage(ENCRYPT_KEY, email)) = {}
       THEN /\ Reply(sendErrorResponse("getTodayNotes", ERROR, "User not found"))
            /\ UNCHANGED pend
       ELSE /\ pend' = [pend EXCEPT ![p] =
                          [op |-> "getTodayNotes", key |-> key,
                           email |-> encryptMessage(ENCRYPT_KEY, email)]]
            /\ resp' = NoResponse
            /\ UNCHANGED lastDelete

GetTodayNotesFetch(p, ok) ==
    LET w == pend[p]
        rows == getTodayNotesSelect(notes, w.email)
    IN
    /\ w.op = "getTodayNotes"
    /\ pend' = [pend EXCEPT ![p] = Idle]
    /\ UNCHANGED <<users, notes, nextKey, nextId, prof>>
    /\ \/ /\ ok
          /\ Reply(sendSuccessResponse("getTodayNotes", [notes |-> getTodayNotesMap(w.key, RowsById(rows))]))
       \/ /\ ok
          /\ CanThrow(w.key, rows)
          /\ Reply(sendErrorResponse("getTodayNotes", INTERNALERR, "An error occurred on the server."))
       \/ /\ ~ ok
          /\ Reply(sendErrorResponse("getTodayNotes", INTERNALERR, "An error occurred on the server."))

\* -------------------------------------------------------------- deleteNote
deleteNoteSelect(U, key, email) == {u \in U : u.chiave = key /\ u.email = email}

\* A deletion by the id alone.
deleteNoteDeleteById(N, id, email) == {n \in N : n.id = id}

deleteNoteDelete(N, id, email) == {n \in N : n.id = id /\ n.idStudente = email}

DeleteNoteCheck(p, key, email, id, ok) ==
    /\ pend[p] = Idle
    /\ UNCHANGED <<users, notes, nextKey, nextId, prof>>
    /\ IF FalsyNumber(key) \/ Falsy(email) \/ FalsyNumber(id)
       THEN /\ Reply(sendErrorResponse("deleteNote", ERROR, "Invalid inputs"))
            /\ UNCHANGED pend
       ELSE IF ~ ok
       THEN /\ Reply(sendErrorResponse("deleteNote", INTERNALERR, DbErrorMessage))
            /\ UNCHANGED pend
       ELSE IF deleteNoteSelect(users, key, encryptMessage(ENCRYPT_KEY, email)) = {}
       THEN /\ Reply(sendErrorResponse("deleteNote", ERROR, "user not found"))
            /\ UNCHANGED pend
       ELSE /\ pend' = [pend EXCEPT ![p] =
                          [op |-> "deleteNote", id |-> id,
                           email |-> encryptMessage(ENCRYPT_KEY, email)]]
            /\ resp' = NoResponse
            /\ UNCHANGED lastDelete

DeleteNoteDelete(p, ok) ==
    LET w == pend[p] IN
    /\ w.op = "deleteNote"
    /\ pend' = [pend EXCEPT ![p] = Idle]
    /\ UNCHANGED <<users, nextKey, nextId, prof>>
    /\ IF ok
       THEN /\ notes' = notes \ deleteNoteDelete(notes, w.id, w.email)
            /\ Reply(sendSuccessResponse("deleteNote", [message |-> "OK"]))
       ELSE /\ UNCHANGED notes
            /\ Reply(sendErrorResponse("deleteNote", INTERNALERR, DbErrorMessage))

\* ------------------------------------------------------- checkEmailExists
checkEmailExistsSelect(U, email) == {u \in U : u.email = email}

CheckEmailExists(email, ok) ==
    /\ UNCHANGED <<users, notes, nextKey, nextId, pend, prof>>
    /\ IF ~ validateEmailFormat(email)
       THEN Reply(sendErrorResponse("checkEmailExists", ERROR, "Invalid email format"))
       ELSE IF ~ ok
       THEN Reply(sendErrorResponse("checkEmailExists", ERROR, DbErrorMessage))
       ELSE IF checkEmailExistsSelect(users, encryptMessage(ENCRYPT_KEY, email)) # {}
       THEN Reply(sendErrorResponse("checkEmailExists", ERROR, "Email already exists"))
       ELSE \* the body is the bare JSON string
            Reply(sendSuccessResponse("checkEmailExists", [text |-> "Email does not exist"]))

\* ---------------------------------------------------------------- /pocketDb
\* The route runs the SQL text of the request; three statements stand for it.
PocketQueries == {"SELECT * FROM studenti", "DELETE FROM studenti", "DELETE FROM note"}

PocketDb(query, ok) ==
    /\ UNCHANGED <<nextKey, nextId, pend>>
    /\ IF ~ ok
       THEN /\ Reply(sendErrorResponse("pocketDb", INTERNALERR, DbErrorMessage))
            /\ UNCHANGED <<users, notes, prof>>
       ELSE IF query = "SELECT * FROM studenti"
       THEN /\ Reply(sendSuccessResponse("pocketDb", [rows |-> users]))
            /\ UNCHANGED <<users, notes, prof>>
       ELSE IF query = "DELETE FROM studenti"
       THEN /\ users' = {}
            /\ notes' = CascadeNotes(notes, users)
            /\ prof' = {}
            /\ Reply(sendSuccessResponse("pocketDb", [rows |-> {}]))
       ELSE /\ notes' = {}
            /\ UNCHANGED <<users, prof>>
            /\ Reply(sendSuccessResponse("pocketDb", [rows |-> {}]))

\* ------------------------------------------------------------- the server
\* The requests of the account routes, handled in the slots P, with passwords
\* PW, names NM and themes TH. A request that is refused whatever its other
\* fields are (a missing or malformed email, a failing query of a handler
\* that has one query) is tried with the other fields fixed.
AccountNext(P, PW, NM, TH) ==
    LET password0 == CHOOSE x \in PW : TRUE
        name0 == CHOOSE x \in NM : TRUE
        ntema0 == CHOOSE x \in TH : TRUE
        key0 == CHOOSE x \in KeyInputs : TRUE
    IN
    \/ \E email \in Emails, password \in PW, ntema \in TH, name \in NM :
          Register(email, password, ntema, name, TRUE)
    \/ \E email \in EmailInputs, ok \in BOOLEAN :
          Register(email, password0, ntema0, name0, ok)
    \/ \E email \in EmailInputs, password \in PW :
          Login(email, password, TRUE)
    \/ \E email \in Emails : Login(email, password0, FALSE)
    \/ \E p \in P, key \in KeyInputs, email \in EmailInputs \ {""}, password \in PW,
          ok \in BOOLEAN :
          DeleteUserLookup(p, key, email, password, ok)
    \/ \E p \in P : DeleteUserLookup(p, key0, "", password0, TRUE)
    \/ \E p \in P, ok \in BOOLEAN : DeleteUserDelete(p, ok)
    \/ \E key \in KeyInputs, email \in Emails, password \in PW, name \in NM :
          UpdateName(key, email, password, name, TRUE)
    \/ \E email \in Emails : UpdateName(key0, email, password0, name0, FALSE)
    \/ \E key \in KeyInputs, email \in Emails, password \in PW, newPassword \in PW :
          UpdatePassword(key, email, password, newPassword, TRUE)
    \/ \E email \in Emails : UpdatePassword(key0, email, password0, password0, FALSE)
    \/ \E key \in KeyInputs, email \in Emails, password \in PW, ntema \in TH :
          UpdateTheme(key, email, password, ntema, TRUE)
    \/ \E email \in Emails, ntema \in TH :
          UpdateTheme(key0, email, password0, ntema, FALSE)

\* The requests of the note routes, handled in the slots P, with the dates D.
NoteNextOn(P, D) ==
    \/ \E p \in P, key \in KeyInputs, title \in Titles, description \in Descriptions,
          date \in D, email \in EmailInputs, ok \in BOOLEAN :
          AddNoteCheck(p, key, title, description, date, email, ok)
    \/ \E p \in P, ok \in BOOLEAN : AddNoteInsert(p, ok)
    \/ \E p \in P, key \in KeyInputs, email \in EmailInputs, date \in D,
          ok \in BOOLEAN :
          GetNotesCheck(p, key, email, date, ok)
    \/ \E p \in P, ok \in BOOLEAN : GetNotesFetch(p, ok)
    \/ \E p \in P, key \in KeyInputs, email \in EmailInputs, ok \in BOOLEAN :
          GetTodayNotesCheck(p, key, email, ok)
    \/ \E p \in P, ok \in BOOLEAN : GetTodayNotesFetch(p, ok)
    \/ \E p \in P, key \in KeyInputs, email \in EmailInputs, id \in NoteIds,
          ok \in BOOLEAN :
          DeleteNoteCheck(p, key, email, id, ok)
    \/ \E p \in P, ok \in BOOLEAN : DeleteNoteDelete(p, ok)

NoteNext(P) == NoteNextOn(P, DateInputs)

\* The other routes that reach the tables.
OtherNext ==
    \/ \E email \in EmailInputs, ok \in BOOLEAN : CheckEmailExists(email, ok)
    \/ \E query \in PocketQueries, ok \in BOOLEAN : PocketDb(query, ok)

\* The slot of a request whose handler is between its two queries.
FirstSlot == {1}

AllIdle == \A p \in Procs : pend[p] = Idle

\* The account and note handlers: single-query requests run at any time, also
\* between the two queries of the request in the slot. The account requests
\* carry one password, one name and one theme.
Next == AccountNext(FirstSlot, {"pw1"}, {"Ann"}, {1}) \/ NoteNext(FirstSlot)

Spec == Init /\ [][Next]_vars

\* The account handlers alone, over all passwords, names and themes.
AccountSpec == Init /\ [][AccountNext(FirstSlot, Passwords, Names, Themes)]_vars

\* Requests one after the other: a request starts when none is in flight.
SeqNext ==
    \/ AllIdle /\ Next
    \/ ~ AllIdle /\ Next /\ AllIdle'

SeqSpec == Init /\ [][SeqNext]_vars

\* The profile updates over all keys, passwords, names and themes, on users
\* who hold notes.
UpdateNext ==
    \/ \E email \in Emails, ntema \in Themes :
          Register(email, "pw1", ntema, "Ann", TRUE)
    \/ \E key \in KeyInputs, email \in EmailInputs, password \in Passwords,
          name \in Names, ok \in BOOLEAN :
          UpdateName(key, email, password, name, ok)
    \/ \E key \in KeyInputs, email \in EmailInputs, password \in Passwords,
          newPassword \in Passwords, ok \in BOOLEAN :
          UpdatePassword(key, email, password, newPassword, ok)
    \/ \E key \in KeyInputs, email \in EmailInputs, password \in Passwords,
          ntema \in Themes, ok \in BOOLEAN :
          UpdateTheme(key, email, password, ntema, ok)
    \/ \E p \in FirstSlot, key \in KeyInputs, email \in Emails :
          AddNoteCheck(p, key, "Title", "Desc", CurrentDate, email, TRUE)
    \/ \E p \in FirstSlot : AddNoteInsert(p, TRUE)

UpdateSpec == Init /\ [][UpdateNext]_vars

\* Requests with fields that are missing, too long or out of range, sent to
\* register and addNote one after the other, next to well-formed ones.
ValidationNext ==
    \/ \E email \in Emails \cup {"", Undefined, LongString},
          password \in {"pw1", "", Undefined, LongString},
          ntema \in {1, NoNumber},
          name \in {"Ann", "", Undefined, LongString} :
          Register(email, password, ntema, name, TRUE)
    \/ \E p \in FirstSlot, key \in KeyInputs \cup {0},
          title \in Titles \cup {"", Undefined, LongString},
          description \in Descriptions \cup {"", Undefined},
          date \in {CurrentDate, MissingDate, UnparsableDate},
          email \in Emails \cup {"", Undefined} :
          AddNoteCheck(p, key, title, description, date, email, TRUE)
    \/ \E p \in FirstSlot, key \in KeyInputs, title \in Titles,
          description \in Descriptions, date \in RangeDates, email \in Emails :
          AddNoteCheck(p, key, title, description, date, email, TRUE)
    \/ \E p \in FirstSlot, email \in Emails :
          AddNoteCheck(p, MalformedKey, "Title", "Desc", CurrentDate, email, TRUE)
    \/ \E p \in FirstSlot, ok \in BOOLEAN : AddNoteInsert(p, ok)

ValidationSpec == Init /\ [][ValidationNext]_vars

\* The cipher on its own: a key and a message are drawn, the message is
\* enciphered with the key, and the result deciphered with any key. resp
\* holds the arguments and the value of the last call.
CryptoInit ==
    /\ users = {}
    /\ notes = {}
    /\ nextKey = 1
    /\ nextId = 1
    /\ pend = [p \in Procs |-> Idle]
    /\ prof = {}
    /\ lastDelete = NoDelete
    /\ \E key \in CipherKeys, message \in Messages :
          resp = [to |-> "input", status |-> 0,
                  body |-> [key |-> key, message |-> message]]

EncryptMessageCall ==
    /\ resp.to = "input"
    /\ resp' = [to |-> "encryptMessage", status |-> 0,
                body |-> [key |-> resp.body.key, message |-> resp.body.message,
                          encrypted |-> encryptMessageHex(resp.body.key,
                                                          resp.body.message)]]
    /\ UNCHANGED <<users, notes, nextKey, nextId, pend, prof, lastDelete>>

DecryptMessageCall(key) ==
    /\ resp.to = "encryptMessage"
    /\ resp' = [to |-> "decryptMessage", status |-> 0,
                body |-> [key |-> resp.body.key, message |-> resp.body.message,
                          with |-> key,
                          decrypted |-> decryptMessageHex(key, resp.body.encrypted)]]
    /\ UNCHANGED <<users, notes, nextKey, nextId, pend, prof, lastDelete>>

\* An initialisation vector drawn afresh at each call.
randomIv == [1..BlockSize -> Bytes]

\* the initialisation vectors a call of encryptMessage may use: the one of
\* Buffer.alloc(16, 0)
allocIv == {iv}

\* A second call of encryptMessage with the arguments of the first.
EncryptMessageAgain ==
    /\ resp.to = "encryptMessage"
    /\ \E v \in allocIv :
          resp' = [to |-> "encryptMessageAgain", status |-> 0,
                   body |-> [key |-> resp.body.key, message |-> resp.body.message,
                             encrypted |-> resp.body.encrypted,
                             again |-> toHex(cbcEncrypt(fromHex(resp.body.key),
                                                        pad(utf8Write(resp.body.message)),
                                                        v))]]
    /\ UNCHANGED <<users, notes, nextKey, nextId, pend, prof, lastDelete>>

CryptoNext ==
    \/ EncryptMessageCall
    \/ EncryptMessageAgain
    \/ \E key \in CipherKeys : DecryptMessageCall(key)

CryptoSpec == CryptoInit /\ [][CryptoNext]_vars

\* deleteUser and addNote in two slots: each may run between the two queries
\* of the other.
RaceNext ==
    \/ \E email \in Emails : Register(email, "pw1", 1, "Ann", TRUE)
    \/ \E p \in Procs, key \in KeyInputs, email \in Emails :
          AddNoteCheck(p, key, "Title", "Desc", CurrentDate, email, TRUE)
    \/ \E p \in Procs, ok \in BOOLEAN : AddNoteInsert(p, ok)
    \/ \E p \in Procs, key \in KeyInputs, email \in Emails :
          DeleteUserLookup(p, key, email, "pw1", TRUE)
    \/ \E p \in Procs, ok \in BOOLEAN : DeleteUserDelete(p, ok)

RaceSpec == Init /\ [][RaceNext]_vars

\* Every handler with fields that are present or not, while the database
\* answers or fails.
RequestKeys == {1, 0}

RequestEmails == {"a@x.com", ""}

RequestPasswords == {"pw1", ""}

InvalidNext ==
    \/ \E email \in RequestEmails \cup {"nomail"}, password \in RequestPasswords,
          ntema \in {1, NoNumber}, name \in {"Ann", ""}, ok \in BOOLEAN :
          Register(email, password, ntema, name, ok)
    \/ \E email \in RequestEmails, password \in RequestPasswords, ok \in BOOLEAN :
          Login(email, password, ok)
    \/ \E p \in FirstSlot, key \in RequestKeys, email \in RequestEmails,
          password \in RequestPasswords, ok \in BOOLEAN :
          DeleteUserLookup(p, key, email, password, ok)
    \/ \E p \in FirstSlot, ok \in BOOLEAN : DeleteUserDelete(p, ok)
    \/ \E key \in RequestKeys, email \in RequestEmails, password \in RequestPasswords,
          name \in {"Bob", ""}, ok \in BOOLEAN :
          UpdateName(key, email, password, name, ok)
    \/ \E key \in RequestKeys, email \in RequestEmails, password \in RequestPasswords,
          newPassword \in RequestPasswords, ok \in BOOLEAN :
          UpdatePassword(key, email, password, newPassword, ok)
    \/ \E key \in RequestKeys, email \in RequestEmails, password \in RequestPasswords,
          ntema \in Themes, ok \in BOOLEAN :
          UpdateTheme(key, email, password, ntema, ok)
    \/ \E p \in FirstSlot, key \in RequestKeys \cup {MalformedKey},
          title \in {"Title", "", LongString}, description \in {"Desc", ""},
          date \in {CurrentDate, CurrentDate - 1, MissingDate, UnparsableDate},
          email \in RequestEmails, ok \in BOOLEAN :
          AddNoteCheck(p, key, title, description, date, email, ok)
    \/ \E p \in FirstSlot, ok \in BOOLEAN : AddNoteInsert(p, ok)
    \/ \E p \in FirstSlot, key \in RequestKeys, email \in RequestEmails,
          date \in {CurrentDate, MissingDate}, ok \in BOOLEAN :
          GetNotesCheck(p, key, email, date, ok)
    \/ \E p \in FirstSlot, ok \in BOOLEAN : GetNotesFetch(p, ok)
    \/ \E p \in FirstSlot, key \in RequestKeys, email \in RequestEmails, ok \in BOOLEAN :
          GetTodayNotesCheck(p, key, email, ok)
    \/ \E p \in FirstSlot, ok \in BOOLEAN : GetTodayNotesFetch(p, ok)
    \/ \E p \in FirstSlot, key \in RequestKeys, email \in RequestEmails,
          id \in {1, 0}, ok \in BOOLEAN :
          DeleteNoteCheck(p, key, email, id, ok)
    \/ \E p \in FirstSlot, ok \in BOOLEAN : DeleteNoteDelete(p, ok)
    \/ \E email \in RequestEmails \cup {"nomail"}, ok \in BOOLEAN :
          CheckEmailExists(email, ok)

InvalidSpec == Init /\ [][InvalidNext]_vars

\* Every route that reaches the tables; the account requests carry either name.
RoutesNext ==
    \/ AccountNext(FirstSlot, {"pw1"}, Names, {1})
    \/ NoteNext(FirstSlot)
    \/ OtherNext

RoutesSpec == Init /\ [][RoutesNext]_vars


\* ============================================================== properties
\* The request's (key, email), as the client wrote them, is the pair of a
\* stored user: the row's key is the key and its email deciphers to the email.
PairStored(key, email) ==
    \E u \in users : u.chiave = key /\ email \in decryptMessage(ENCRYPT_KEY, u.email)

\* A request's email that passes the handlers' !email test.
PresentEmails == EmailInputs \ {""}

TablesUnchanged == users' = users /\ notes' = notes /\ nextId' = nextId

\* Every step of a handler answers on the response object of its route or
\* leaves the handler waiting in its slot: true of each step of the route, it
\* is put before the handler's action in the formulas below only to name the
\* steps they are about.
ByRoute(p, route) == resp'.to = route \/ pend'[p].op = route

Answers(route) == resp'.to = route

\* C1: addNote and deleteNote presented with a (key, email) pair that is the
\* pair of no stored user answer "user not found" and return at once (the
\* handler is not left waiting for a second query), and the users and the
\* notes are as before.
C1_UnknownPairChangesNothing ==
    [][\A p \in Procs :
         /\ ByRoute(p, "addNote") =>
              \A key \in KeyInputs, email \in PresentEmails, title \in Titles,
                 description \in Descriptions, date \in DateInputs :
                 (/\ date >= CurrentDate
                  /\ ~ PairStored(key, email)
                  /\ AddNoteCheck(p, key, title, description, date, email, TRUE))
                 => /\ resp' = sendErrorResponse("addNote", ERROR, "user not found")
                    /\ pend'[p] = Idle
                    /\ TablesUnchanged
         /\ ByRoute(p, "deleteNote") =>
              \A key \in KeyInputs, email \in PresentEmails, id \in NoteIds :
                 (/\ ~ PairStored(key, email)
                  /\ DeleteNoteCheck(p, key, email, id, TRUE))
                 => /\ resp' = sendErrorResponse("deleteNote", ERROR, "user not found")
                    /\ pend'[p] = Idle
                    /\ TablesUnchanged]_vars

\* C1 witness: addNote was refused while a user and one of his notes exist.
C1_Witness ==
    /\ resp = sendErrorResponse("addNote", ERROR, "user not found")
    /\ users # {}
    /\ notes # {}
    /\ AllIdle

\* The request carries the email of a stored user with another key, or the
\* key of a stored user with another email.
HalfPair(key, email) ==
    \E u \in users :
       \/ email \in decryptMessage(ENCRYPT_KEY, u.email) /\ u.chiave # key
       \/ u.chiave = key /\ email \notin decryptMessage(ENCRYPT_KEY, u.email)

\* C2: getNotes and getTodayNotes presented with a stored user's email and
\* another key, or with a stored user's key and another email, answer the
\* error "user not found" ("User not found" from getTodayNotes) and never go
\* on to read the notes; a handler goes on to read the notes only for the
\* (key, email) pair of a stored user, and notes are answered only by a
\* handler that went on.
C2_HalfPairGetsNoNotes ==
    [][/\ \A route \in {"getNotes", "getTodayNotes"} :
            (Answers(route) /\ resp'.status = SUCCESS)
               => \E p \in Procs : pend[p].op = route /\ pend'[p] = Idle
       /\ \A p \in Procs :
         /\ ByRoute(p, "getNotes") =>
              /\ \A key \in KeyInputs, email \in PresentEmails, date \in DateInputs :
                    GetNotesCheck(p, key, email, date, TRUE) =>
                       /\ HalfPair(key, email) =>
                            /\ resp' = sendErrorResponse("getNotes", ERROR, "user not found")
                            /\ pend'[p] = Idle
                       /\ pend'[p] # Idle => PairStored(key, email)
         /\ ByRoute(p, "getTodayNotes") =>
              /\ \A key \in KeyInputs, email \in PresentEmails :
                    GetTodayNotesCheck(p, key, email, TRUE) =>
                       /\ HalfPair(key, email) =>
                            /\ resp' = sendErrorResponse("getTodayNotes", ERROR, "User not found")
                            /\ pend'[p] = Idle
                       /\ pend'[p] # Idle => PairStored(key, email)]_vars

\* C2 witness: getNotes was refused while two users and a note exist, so the
\* refused request carried a stored key or a stored email.
C2_Witness ==
    /\ resp = sendErrorResponse("getNotes", ERROR, "user not found")
    /\ Cardinality(users) = 2
    /\ notes # {}

\* The plaintext credentials of a request are those of a stored user.
FullMatch(key, email, password) ==
    \E u \in users : /\ u.chiave = key
                     /\ email \in decryptMessage(ENCRYPT_KEY, u.email)
                     /\ u.password = createHash(password)

LoginMatch(email, password) ==
    \E u \in users : /\ email \in decryptMessage(ENCRYPT_KEY, u.email)
                     /\ u.password = createHash(password)

ProtectedRoutes ==
    {"login", "deleteUser", "updateName", "updatePassword", "updateTheme",
     "addNote", "getNotes", "getTodayNotes", "deleteNote"}

NoteRoutes == {"addNote", "getNotes", "getTodayNotes", "deleteNote"}

\* /checkAvailability and the test route /pocketDb
OpenRoutes == {"checkEmailExists", "pocketDb"}

\* The step answers with stored records or tells that an email is stored.
StoreRead ==
    \/ resp'.status = SUCCESS /\ resp'.to \in {"login", "getNotes", "getTodayNotes"}
    \/ resp' = sendSuccessResponse("pocketDb", [rows |-> users]) /\ users # {}
    \/ resp' = sendErrorResponse("checkEmailExists", ERROR, "Email already exists")

\* The step changes a table or reads it out.
Touches == users' # users \/ notes' # notes \/ StoreRead

\* The step is the answer of a handler that checks credentials, and the
\* credentials of every request that it can be the answer to were matched:
\* by the query of the step itself (login, the updates, the DELETE of
\* deleteUser), or by the lookup after which the handler went on (the notes).
Mediated ==
    /\ resp'.to \in ProtectedRoutes
    /\ Answers("login") =>
         \A email \in PresentEmails, password \in Passwords :
            Login(email, password, TRUE) => LoginMatch(email, password)
    /\ Answers("updateName") =>
         \A key \in KeyInputs, email \in Emails, password \in Passwords, name \in Names :
            UpdateName(key, email, password, name, TRUE)
               => FullMatch(key, email, password)
    /\ Answers("updatePassword") =>
         \A key \in KeyInputs, email \in Emails, password \in Passwords,
            newPassword \in Passwords :
            UpdatePassword(key, email, password, newPassword, TRUE)
               => FullMatch(key, email, password)
    /\ Answers("updateTheme") =>
         \A key \in KeyInputs, email \in Emails, password \in Passwords,
            ntema \in Themes :
            UpdateTheme(key, email, password, ntema, TRUE)
               => FullMatch(key, email, password)
    /\ Answers("deleteUser") =>
         /\ \E p \in Procs : pend[p].op = "deleteUser"
         /\ \A p \in Procs :
               DeleteUserDelete(p, TRUE)
                  => FullMatch(pend[p].key, pend[p].plain[1], pend[p].plain[2])
    /\ \A route \in NoteRoutes :
          Answers(route) => \E p \in Procs : pend[p].op = route /\ pend'[p] = Idle

\* A handler goes on from its lookup to its second query, without an answer
\* yet, only when the lookup matched the credentials of the request.
CheckPassed ==
    \A p \in Procs :
       (pend[p] = Idle /\ pend'[p] # Idle /\ resp' = NoResponse) =>
          /\ pend'[p].op = "addNote" =>
               \A key \in KeyInputs, email \in PresentEmails, title \in Titles,
                  description \in Descriptions, date \in DateInputs :
                  AddNoteCheck(p, key, title, description, date, email, TRUE)
                     => PairStored(key, email)
          /\ pend'[p].op = "getNotes" =>
               \A key \in KeyInputs, email \in PresentEmails, date \in DateInputs :
                  GetNotesCheck(p, key, email, date, TRUE) => PairStored(key, email)
          /\ pend'[p].op = "getTodayNotes" =>
               \A key \in KeyInputs, email \in PresentEmails :
                  GetTodayNotesCheck(p, key, email, TRUE) => PairStored(key, email)
          /\ pend'[p].op = "deleteNote" =>
               \A key \in KeyInputs, email \in PresentEmails, id \in NoteIds :
                  DeleteNoteCheck(p, key, email, id, TRUE) => PairStored(key, email)
          /\ pend'[p].op = "deleteUser" =>
               \A key \in KeyInputs, email \in PresentEmails, password \in Passwords :
                  DeleteUserLookup(p, key, email, password, TRUE)
                     => FullMatch(key, email, password)

\* What holds of the routes apart from /pocketDb and /checkAvailability:
\* login, deleteUser, the three updates and the four note handlers change a
\* table or answer with stored records only for credentials that a stored
\* user matched (the note handlers at their lookup, one query before), and
\* register only adds a row.
HandlersCheckCredentials ==
    [][/\ (Touches /\ resp'.to \notin OpenRoutes /\ ~ Answers("register")) => Mediated
       /\ Answers("register") => (users \subseteq users' /\ notes' = notes)
       /\ CheckPassed]_vars

\* C3: every step of a route (register, which only adds a row, apart) that
\* changes a table or reads it out is the answer of a handler whose
\* credential check matched a stored user: no request without matching
\* credentials reads or changes a stored user or note.
C3_EveryRouteMediated ==
    [][(Touches /\ ~ Answers("register")) => Mediated]_vars

\* An account with the email exists, by the history of the requests.
Registered(email) == \E a \in prof : a.email = email

AlreadyRegistered == sendErrorResponse("register", ERROR, "Email already registered.")

Registration == sendSuccessResponse("register", [message |-> "Registration successful!"])

\* C4: a register request with the email of a registered user, whatever its
\* password, name and theme, answers "Email already registered." and leaves
\* the users, the existing row included, as they were.
C4_DuplicateEmailRefused ==
    [][Answers("register") =>
         \A email \in Emails, password \in Passwords, ntema \in Themes, name \in Names :
            (Registered(email) /\ Register(email, password, ntema, name, TRUE))
               => (resp' = AlreadyRegistered /\ users' = users /\ prof' = prof)]_vars

\* C4 witness: a registration was refused while the account has key 1 and
\* another account exists.
C4_Witness ==
    /\ resp = AlreadyRegistered
    /\ \E a \in prof : a.key = 1
    /\ Cardinality(users) = 2

\* No two rows of studenti have the same (enciphered) email.
UniqueEmails == \A u, v \in users : u.email = v.email => u = v

\* C5: no two users ever have the same enciphered email, whatever the order
\* of the requests; register is a single INSERT, so that two concurrent
\* register requests for one email are two INSERTs one after the other: with
\* no account of the email, the first registers it, and any register that
\* follows while it is registered is refused.
C5_OneRegistrationPerEmail ==
    [][/\ UniqueEmails'
       /\ Answers("register") =>
            \A email \in Emails, password \in Passwords, ntema \in Themes,
               name \in Names :
               Register(email, password, ntema, name, TRUE) =>
                  /\ Registered(email)'
                  /\ resp' = (IF Registered(email) THEN AlreadyRegistered
                              ELSE Registration)
                  /\ Cardinality({u \in users' : u.email = encryptMessage(ENCRYPT_KEY, email)})
                        = 1]_vars

\* C5 witness: the second of two registrations of one email was refused, the
\* only stored account being the one of key 1.
C5_Witness ==
    /\ resp = AlreadyRegistered
    /\ Cardinality(users) = 1
    /\ nextKey = 2

InvalidCredentials == sendErrorResponse("login", ERROR, "Invalid credentials")

\* C6: login with the email of an account and another password than the
\* account's, and login with an email of no account, get the same answer:
\* status 400 and "Invalid credentials".
C6_LoginFailuresAlike ==
    [][Answers("login") =>
         \A email \in PresentEmails, password \in Passwords :
            Login(email, password, TRUE) =>
               /\ (Registered(email) /\ \A a \in ProfOf(email) : a.password # password)
                     => resp' = InvalidCredentials
               /\ ~ Registered(email) => resp' = InvalidCredentials]_vars

\* C6 witness: a login was refused while exactly one of the two emails has an
\* account.
C6_Witness ==
    /\ resp = InvalidCredentials
    /\ Cardinality(prof) = 1

NoUserFound == sendSuccessResponse("deleteUser", [message |-> "no user found"])

DeletedOK == sendSuccessResponse("deleteUser", [message |-> "OK"])

NotesOwned == \A n \in notes : \E u \in users : u.email = n.idStudente

OutOfRange(date) ==
    date < CurrentDate \/ date > CurrentDate + YearsAhead * YearLength

DateRefused ==
    sendErrorResponse("addNote", ERROR,
                      "Date must be from today and within a reasonable future range.")

\* What holds of the dates: a well-formed addNote request is refused for its
\* date when the date is earlier than today or falls after the last day of
\* the tenth calendar year from this one.
AddNoteDateRule ==
    [][\A p \in Procs :
         ByRoute(p, "addNote") =>
            \A key \in KeyInputs, title \in Titles, description \in Descriptions,
               date \in RangeDates, email \in Emails :
               (/\ \/ date < CurrentDate
                   \/ date >= (YearsAhead + 1) * YearLength - TodayOfYear
                /\ AddNoteCheck(p, key, title, description, date, email, TRUE))
               => (resp' = DateRefused /\ pend'[p] = Idle /\ notes' = notes)]_vars

\* C11: an addNote request whose date is earlier than today, or more than
\* ten years after today, is answered with the error of the date test and
\* goes no further, whatever its other fields are, those of a stored user
\* included; and no note of such a date is ever inserted.
C11_DateOutOfRangeRefused ==
    [][/\ \A n \in notes' \ notes : ~ OutOfRange(n.dataora)
       /\ \A p \in Procs :
            ByRoute(p, "addNote") =>
               \A key \in KeyInputs, title \in Titles, description \in Descriptions,
                  date \in RangeDates, email \in Emails :
                  (/\ OutOfRange(date)
                   /\ AddNoteCheck(p, key, title, description, date, email, TRUE))
                  => (resp' = DateRefused /\ pend'[p] = Idle /\ notes' = notes)]_vars

\* The text a stored field was enciphered from.
Plain(c) == c[2]

\* The notes of the owner email on the day date, as they were handed to addNote.
AddedFor(email, date) ==
    {[title |-> Plain(n.titolo), description |-> Plain(n.testo), dataora |-> n.dataora] :
        n \in {m \in notes : /\ m.idStudente = encryptMessage(ENCRYPT_KEY, email)
                             /\ m.dataora = date}}

\* A row enters the table only as the row of an addNote request that passed
\* its lookup, and leaves it only with deleteNote or deleteUser.
NotesAreTheAdded ==
    /\ \A n \in notes' \ notes :
          \E p \in Procs :
             /\ pend[p].op = "addNote"
             /\ n = addNoteRow(nextId, pend[p].date, pend[p].title,
                               pend[p].description, pend[p].email)
    /\ notes \ notes' # {} =>
          \E p \in Procs : pend[p].op \in {"deleteNote", "deleteUser"}
    /\ \A p \in Procs :
          (pend[p] = Idle /\ pend'[p].op = "addNote") =>
             \E key \in KeyInputs, title \in Titles, description \in Descriptions,
                email \in Emails :
                /\ PairStored(key, email)
                /\ pend'[p].title = encryptMessage(key, title)
                /\ pend'[p].description = encryptMessage(key, description)
                /\ pend'[p].email = encryptMessage(ENCRYPT_KEY, email)

AddedForToday(email) ==
    {[id |-> n.id, title |-> Plain(n.titolo), description |-> Plain(n.testo),
      dataora |-> n.dataora] :
        n \in {m \in notes : /\ m.idStudente = encryptMessage(ENCRYPT_KEY, email)
                             /\ m.dataora = CurrentDate}}

C13_WitnessToday ==
    /\ resp.to = "getTodayNotes"
    /\ resp.status = SUCCESS
    /\ Len(resp.body.notes) = 1
    /\ \E n \in notes : n.dataora # CurrentDate

UpdateRoutes == {"updateName", "updatePassword", "updateTheme"}

\* The step changes no user record other than one with this key, this email
\* and this password, and none at all when no record has the three.
OnlyTheMatched(key, email, password) ==
    /\ ~ FullMatch(key, email, password) => users' = users
    /\ \A u \in users \ users' :
          /\ u.chiave = key
          /\ u.email = encryptMessage(ENCRYPT_KEY, email)
          /\ u.password = createHash(password)

\* C14: updateName, updatePassword and updateTheme change a user record only
\* when the key, the email and the current password of the request are all
\* three those of that record; with any other triple every user record is
\* left as it was. (A step that leaves the users as they were has nothing to
\* show, so the requests are looked at on the steps that change them.)
C14_UpdateNeedsAllThree ==
    [][(resp'.to \in UpdateRoutes /\ users' # users) =>
         \A key \in KeyInputs, email \in EmailInputs, password \in Passwords,
            ok \in BOOLEAN :
            /\ \A name \in Names :
                  UpdateName(key, email, password, name, ok)
                  => OnlyTheMatched(key, email, password)
            /\ \A newPassword \in Passwords :
                  UpdatePassword(key, email, password, newPassword, ok)
                  => OnlyTheMatched(key, email, password)
            /\ \A ntema \in Themes :
                  UpdateTheme(key, email, password, ntema, ok)
                  => OnlyTheMatched(key, email, password)]_vars

\* updateTheme was called with a theme other than 0 and has left every user
\* with theme 0: its triple matched no record.
C14_Witness ==
    /\ resp = sendSuccessResponse("updateTheme", [message |-> "OK"])
    /\ users # {}
    /\ \A u \in users : u.ntema = 0

\* C15: a profile update whose key, email and password match no user record
\* does not answer with success.
C15_UnmatchedUpdateNotFound ==
    [][resp'.to \in UpdateRoutes =>
         \A key \in KeyInputs, email \in EmailInputs, password \in Passwords,
            ok \in BOOLEAN :
            ~ FullMatch(key, email, password) =>
               /\ \A name \in Names :
                     UpdateName(key, email, password, name, ok)
                     => resp'.status # SUCCESS
               /\ \A newPassword \in Passwords :
                     UpdatePassword(key, email, password, newPassword, ok)
                     => resp'.status # SUCCESS
               /\ \A ntema \in Themes :
                     UpdateTheme(key, email, password, ntema, ok)
                     => resp'.status # SUCCESS]_vars

UserFields == {"chiave", "email", "password", "nome", "ntema"}

\* The step leaves the notes, the number of users and every field of every
\* user as they were, but for the given field of the users with this key,
\* this email and this password, which takes the given value.
OnlyField(field, value, key, email, password) ==
    /\ notes' = notes
    /\ Cardinality(users') = Cardinality(users)
    /\ \A u \in users :
          \E v \in users' :
             /\ \A g \in UserFields \ {field} : v[g] = u[g]
             /\ IF /\ u.chiave = key
                   /\ u.email = encryptMessage(ENCRYPT_KEY, email)
                   /\ u.password = createHash(password)
                THEN v[field] = value
                ELSE v[field] = u[field]

\* C16: a profile update that succeeds changes only the field it was given,
\* of the matched user: updateName the name, updateTheme the theme,
\* updatePassword the password hash; the email and the key of that user,
\* every other user and all notes stay as they were.
C16_UpdateChangesOneField ==
    [][(resp'.to \in UpdateRoutes /\ resp'.status = SUCCESS) =>
         /\ notes' = notes
         /\ Cardinality(users') = Cardinality(users)
         /\ Cardinality(users \ users') <= 1
         /\ users' # users =>
              \A key \in KeyInputs, email \in EmailInputs, password \in Passwords :
                 /\ \A name \in Names :
                       UpdateName(key, email, password, name, TRUE)
                       => OnlyField("nome", encryptMessage(ENCRYPT_KEY, name),
                                    key, email, password)
                 /\ \A newPassword \in Passwords :
                       UpdatePassword(key, email, password, newPassword, TRUE)
                       => OnlyField("password", createHash(newPassword),
                                    key, email, password)
                 /\ \A ntema \in Themes :
                       UpdateTheme(key, email, password, ntema, TRUE)
                       => OnlyField("ntema", ntema, key, email, password)]_vars

\* updateName has renamed one of two users, who both hold a note.
C16_Witness ==
    /\ resp = sendSuccessResponse("updateName", [message |-> "OK"])
    /\ \E u, v \in users :
          /\ u.nome = encryptMessage(ENCRYPT_KEY, "Bob")
          /\ v.nome = encryptMessage(ENCRYPT_KEY, "Ann")
          /\ \E n \in notes : n.idStudente = u.email
          /\ \E n \in notes : n.idStudente = v.email

InvalidParameters ==
    sendErrorResponse("register", ERROR, "Invalid input parameters.")

\* C17: a register request with the email, the password or the name missing,
\* or with one of them longer than 128 characters, or with a theme that is
\* not a number, is answered with the error of the input test and creates
\* no user.
C17_RegisterRefusesBadInput ==
    [][Answers("register") =>
         \A email \in Emails \cup {"", Undefined, LongString},
            password \in {"pw1", "", Undefined, LongString},
            ntema \in {1, NoNumber},
            name \in {"Ann", "", Undefined, LongString} :
            (/\ \/ email = Undefined \/ password = Undefined \/ name = Undefined
                \/ Len(email) > MaxFieldLength
                \/ Len(password) > MaxFieldLength
                \/ Len(name) > MaxFieldLength
                \/ ntema = NoNumber
             /\ Register(email, password, ntema, name, TRUE))
            => (resp' = InvalidParameters /\ users' = users /\ nextKey' = nextKey)]_vars

\* register has refused a request for its inputs after a user was created.
C17_Witness ==
    /\ resp = InvalidParameters
    /\ users # {}

\* What holds of the fields of addNote: with a title in the request, a
\* missing key, description, date or email, or an empty title, is answered
\* 400 "Invalid inputs", a title longer than 128 characters 400 "title is too
\* long", and no note is inserted.
AddNoteFieldsRule ==
    [][\A p \in Procs :
         ByRoute(p, "addNote") =>
            \A key \in KeyInputs \cup {0},
               title \in Titles \cup {"", LongString},
               description \in Descriptions \cup {"", Undefined},
               date \in {CurrentDate, MissingDate, UnparsableDate},
               email \in Emails \cup {"", Undefined} :
               (/\ \/ key = 0 \/ title = "" \/ description = Undefined
                   \/ date = MissingDate \/ email = Undefined
                   \/ Len(title) > MaxFieldLength
                /\ AddNoteCheck(p, key, title, description, date, email, TRUE))
               => /\ resp' \in {sendErrorResponse("addNote", ERROR, "Invalid inputs"),
                                sendErrorResponse("addNote", ERROR, "title is too long")}
                  /\ pend'[p] = Idle
                  /\ notes' = notes]_vars

\* C18: an addNote request with the key, the email, the title, the
\* description or the date missing, or with a title longer than 128
\* characters, is answered with a validation error, not left without an
\* answer, and inserts no note.
C18_AddNoteRefusesBadInput ==
    [][\A p \in Procs :
         ByRoute(p, "addNote") =>
            \A key \in KeyInputs \cup {0},
               title \in Titles \cup {"", Undefined, LongString},
               description \in Descriptions \cup {"", Undefined},
               date \in {CurrentDate, MissingDate, UnparsableDate},
               email \in Emails \cup {"", Undefined} :
               (/\ \/ key = 0 \/ title = Undefined \/ description = Undefined
                   \/ date = MissingDate \/ email = Undefined
                   \/ Len(title) > MaxFieldLength
                /\ AddNoteCheck(p, key, title, description, date, email, TRUE))
               => /\ resp'.status = ERROR
                  /\ pend'[p] = Idle
                  /\ notes' = notes]_vars

\* A string of characters: no unpaired surrogate among its code units.
WellFormed(message) == \A i \in 1..Len(message) : message[i] # Surrogate

\* As stated for every string: deciphering with the key that enciphered
\* gives the message back.
C19_RoundTripEveryString ==
    (resp.to = "decryptMessage" /\ resp.body.with = resp.body.key)
    => /\ ~ resp.body.decrypted.thrown
       /\ resp.body.decrypted.text = resp.body.message

\* C19: for every key of the right length and every string of characters
\* (a string without unpaired surrogates), deciphering with the key the
\* enciphering of the string with that key gives the string back.
C19_RoundTrip ==
    (/\ resp.to = "decryptMessage"
     /\ resp.body.with = resp.body.key
     /\ WellFormed(resp.body.message))
    => /\ ~ resp.body.decrypted.thrown
       /\ resp.body.decrypted.text = resp.body.message

\* A message of two blocks, with a character of two bytes across them, has
\* come back from the key that enciphered it.
C19_Witness ==
    /\ resp.to = "decryptMessage"
    /\ resp.body.with = resp.body.key
    /\ resp.body.message = <<0, Replacement>>
    /\ resp.body.decrypted.text = resp.body.message
    /\ \E i \in 1..(2 * BlockSize) : resp.body.key[i] # 0

\* C20: deciphering with a key other than the one that enciphered throws an
\* error and returns no text.
C20_WrongKeyThrows ==
    (resp.to = "decryptMessage" /\ fromHex(resp.body.with) # fromHex(resp.body.key))
    => resp.body.decrypted.thrown

RawMessages == {DbErrorMessage, BadDecrypt}

\* C22: a failure of the storage or of the cipher inside a handler is
\* answered with a generic internal-error message: the message of the thrown
\* error is never in the body of the response.
C22_NoRawErrorMessage ==
    resp.status = INTERNALERR => resp.body.error \notin RawMessages

\* What holds: register and getTodayNotes answer a failure with their own
\* fixed message.
GenericWhereLogged ==
    (resp.status = INTERNALERR /\ resp.to \in {"register", "getTodayNotes"})
    => resp.body.error \in {"An error occurred. Please try again.",
                            "An error occurred on the server."}

\* C23: an addNote request with a key that is no key material of the right
\* length is answered with an error response: the error of the cipher is
\* caught by the handler.
C23_MalformedKeyAnswered ==
    [][\A p \in Procs :
         ByRoute(p, "addNote") =>
            \A title \in Titles, description \in Descriptions, email \in Emails :
               AddNoteCheck(p, MalformedKey, title, description, CurrentDate, email, TRUE)
               => (resp'.status \in {ERROR, INTERNALERR} /\ pend'[p] = Idle)]_vars

\* C24: an updatePassword with the key, the email and the current password
\* of a user and a new password other than the current one succeeds and
\* leaves the user with the new password and not with the old one: login
\* succeeds with the passwords that are stored and is refused as invalid
\* credentials with any other, deleteUser, updateName and updateTheme match
\* with the stored password alone, and the password of a user changes at no
\* step but one of updatePassword.
C24_PasswordChangeTakesOver ==
    [][/\ resp'.to = "updatePassword" =>
            \A key \in KeyInputs, email \in Emails, password \in Passwords,
               newPassword \in Passwords :
               (/\ newPassword # password
                /\ FullMatch(key, email, password)
                /\ UpdatePassword(key, email, password, newPassword, TRUE))
               => /\ resp' = sendSuccessResponse("updatePassword", [message |-> "OK"])
                  /\ FullMatch(key, email, newPassword)'
                  /\ ~ LoginMatch(email, password)'
       /\ \A u \in users, v \in users' :
             (u.email = v.email /\ u.chiave = v.chiave /\ u.password # v.password)
             => resp'.to = "updatePassword"
       /\ Answers("login") =>
            \A email \in PresentEmails, password \in Passwords :
               Login(email, password, TRUE) =>
                  IF LoginMatch(email, password)
                  THEN resp'.status = SUCCESS
                  ELSE resp' = InvalidCredentials
       /\ (resp'.to \in {"updateName", "updateTheme"} /\ users' # users) =>
            \A key \in KeyInputs, email \in Emails, password \in Passwords :
               /\ \A name \in Names :
                     UpdateName(key, email, password, name, TRUE)
                     => FullMatch(key, email, password)
               /\ \A ntema \in Themes :
                     UpdateTheme(key, email, password, ntema, TRUE)
                     => FullMatch(key, email, password)
       /\ \A p \in Procs :
            (pend[p] = Idle /\ pend'[p].op = "deleteUser" /\ pend'[p].sent = 0) =>
               \A key \in KeyInputs, email \in PresentEmails, password \in Passwords :
                  DeleteUserLookup(p, key, email, password, TRUE)
                  => FullMatch(key, email, password)]_vars

\* A password was changed from "pw1" to "pw2" or back: the table holds a
\* user with each password after an updatePassword.
C24_Witness ==
    /\ resp = sendSuccessResponse("updatePassword", [message |-> "OK"])
    /\ \E u, v \in users : /\ u.password = createHash("pw1")
                           /\ v.password = createHash("pw2")
    /\ \E a \in prof : a.password = "pw2"

\* C25: the lookup of addNote and its INSERT are two steps, and the INSERT
\* does not look the user up again: the INSERT of a request whose lookup has
\* passed adds the note whether or not its owner is still stored, so that a
\* deleteUser between the two leaves a note without owner; and a note
\* without owner arises at no other step.
C25_CheckThenActRace ==
    [][/\ \A p \in Procs :
            (pend[p].op = "addNote" /\ AddNoteInsert(p, TRUE))
            => /\ resp' = sendSuccessResponse("addNote", [message |-> "OK"])
               /\ \E n \in notes' \ notes :
                     /\ n.idStudente = pend[p].email
                     /\ n.titolo = pend[p].title
       /\ (NotesOwned /\ ~ NotesOwned') =>
            \E p \in Procs :
               /\ pend[p].op = "addNote"
               /\ pend'[p] = Idle
               /\ ~ \E u \in users : u.email = pend[p].email]_vars

\* addNote has answered OK and its note has no owner: the user was deleted
\* after the lookup.
C25_Witness ==
    /\ resp = sendSuccessResponse("addNote", [message |-> "OK"])
    /\ \E n \in notes : ~ \E u \in users : u.email = n.idStudente

\* The step answers on the route with a validation error and has done no
\* work: no table and no slot has changed, and the answer carries no message
\* of a failed query or cipher.
RefusedBeforeWork(route) ==
    /\ resp'.to = route
    /\ resp'.status = ERROR
    /\ resp'.body.error \notin RawMessages \cup {"user not found", "User not found",
                                                 "Invalid credentials",
                                                 "Email already registered.",
                                                 "Email already exists"}
    /\ TablesUnchanged
    /\ nextKey' = nextKey
    /\ pend' = pend

C27_FailureEndsRequest ==
    [][\A p \in Procs :
         /\ (pend[p] = Idle /\ resp'.status = INTERNALERR) => pend'[p] = Idle
         /\ (pend[p].op = "deleteUser" /\ pend[p].sent = 1) => users' = users]_vars

\* What holds of the other handlers with two queries: a failed lookup ends
\* the request.
FailureEndsNoteRequest ==
    [][\A p \in Procs :
         (pend[p] = Idle /\ resp'.status = INTERNALERR /\ resp'.to \in NoteRoutes)
         => pend'[p] = Idle]_vars

\* C28: every request gets exactly one response: a step that leaves the
\* handler waiting for its second query sends none, and a step that ends a
\* request sends one response, never a second one and never none.
C28_ExactlyOneResponse ==
    [][/\ \A p \in Procs :
            (pend[p] = Idle /\ pend'[p] # Idle) => resp' = NoResponse
       /\ resp' # NoResponse => resp'.status \in {SUCCESS, ERROR, INTERNALERR}]_vars

\* C29: deleteNote asked by a key and an email stored together, with a note
\* id, removes at most the note of that id owned by that email: no note of
\* another owner, whatever the id, no other note and no user.
C29_DeleteNoteOwnOnly ==
    [][\A p \in Procs :
         ByRoute(p, "deleteNote") =>
            /\ \A key \in KeyInputs, email \in Emails, id \in NoteIds, ok \in BOOLEAN :
                  DeleteNoteCheck(p, key, email, id, ok)
                  => /\ TablesUnchanged
                     /\ pend'[p] # Idle =>
                          /\ PairStored(key, email)
                          /\ pend'[p].op = "deleteNote"
                          /\ pend'[p].id = id
                          /\ pend'[p].email = encryptMessage(ENCRYPT_KEY, email)
            /\ \A ok \in BOOLEAN :
                  (pend[p].op = "deleteNote" /\ DeleteNoteDelete(p, ok))
                  => /\ users' = users
                     /\ notes' \subseteq notes
                     /\ Cardinality(notes \ notes') <= 1
                     /\ \A n \in notes \ notes' :
                           n.id = pend[p].id /\ n.idStudente = pend[p].email
                     /\ ok => ~ \E n \in notes' :
                                 n.id = pend[p].id /\ n.idStudente = pend[p].email]_vars

\* deleteNote was answered OK and removed nothing: every id is that of a
\* stored note, so the id of the request was that of a note of another owner.
C29_Witness ==
    /\ resp = sendSuccessResponse("deleteNote", [message |-> "OK"])
    /\ \A id \in NoteIds : \E n \in notes : n.id = id
    /\ Cardinality({n.idStudente : n \in notes}) = 2

\* C30: updateTheme accepts every theme that register accepts, 0 included:
\* with the key, the email and the password of a user it answers OK and
\* leaves the user with that theme, which a login then returns.
C30_UpdateThemeAnyNumber ==
    [][resp'.to = "updateTheme" =>
         \A key \in KeyInputs, email \in Emails, password \in Passwords,
            ntema \in Themes :
            (/\ FullMatch(key, email, password)
             /\ UpdateTheme(key, email, password, ntema, TRUE))
            => /\ resp' = sendSuccessResponse("updateTheme", [message |-> "OK"])
               /\ \E u \in users' :
                     /\ u.chiave = key
                     /\ u.email = encryptMessage(ENCRYPT_KEY, email)
                     /\ u.ntema = ntema]_vars

\* What holds: with a theme other than 0.
UpdateThemeNonZero ==
    [][resp'.to = "updateTheme" =>
         \A key \in KeyInputs, email \in Emails, password \in Passwords,
            ntema \in Themes \ {0} :
            (/\ FullMatch(key, email, password)
             /\ UpdateTheme(key, email, password, ntema, TRUE))
            => /\ resp' = sendSuccessResponse("updateTheme", [message |-> "OK"])
               /\ \E u \in users' :
                     /\ u.chiave = key
                     /\ u.email = encryptMessage(ENCRYPT_KEY, email)
                     /\ u.ntema = ntema]_vars

====
